---- MODULE Spec2Model ----
(***************************************************************************)
(* Lottery bot (aiogram): ticket store, draw lock and the update handlers  *)
(* of bot.py, modelled as concurrently running handler tasks.  A handler   *)
(* is cut into steps at the awaits at which it really suspends (database   *)
(* calls, sends to Telegram); everything between two such awaits runs      *)
(* atomically on the event loop.  Awaits that neither read nor write       *)
(* shared state (audit and answer sends after the last access) are joined  *)
(* to the step before them.  Handler tasks have no identity of their own:  *)
(* the tasks in flight are a bag of (handler, position, locals).  The      *)
(* answer a handler ends with is shown in "out" until the handler returns; *)
(* the return touches no shared state, so it is taken before any other     *)
(* step (Return).                                                          *)
(*                                                                         *)
(* Spec runs the handlers of bot.py that write the tickets table, the      *)
(* counter or the draw lock.  user_view_ticket_callback writes none of     *)
(* them: ViewSpec runs it beside the handlers that write the tickets       *)
(* table.  StartSpec runs the /start handler of handlers/start.py with the *)
(* language stores.  FairSpec is Spec with the event loop's scheduling of  *)
(* ready tasks.  UploadSpec runs the upload conversation: the "upload      *)
(* photo" button with its audit send, the photo handler and /start.        *)
(* TextSpec calls get_text of utils/language.py on bounded inputs.         *)
(***************************************************************************)
EXTENDS Integers, FiniteSets, Sequences, Bags, TLC

\* ---- bounds ----
MaxTasks == 2          \* handler tasks that may be in flight together
MaxTickets == 2        \* ticket numbers issued in one run

\* ---- configuration (Settings) ----
Users == {1, 2}
admin_ids == {1}

TicketNums == 1..MaxTickets
None == -1

VARIABLES
    tickets,         \* tickets table: ticket_number -> [user_id, status]
    counter,         \* last ticket number issued by get_next_ticket_number
    locked,          \* draw_lock.locked
    fsm,             \* FSM state per user
    running,         \* bag of the handler tasks in flight: kind, pc, user, num
    out,             \* what the handler that just finished answered
    audit,           \* how the audit send of the handler that just finished ended
    saved_language,  \* users table: language stored per user ("none": no row)
    user_languages,  \* utils.language._user_languages ("none": no entry)
    starts,          \* bag of the /start handlers in flight: pc, user, detected, lang
    pressed,         \* history, per user: what followed the last press of "upload photo"
    text             \* the last call of get_text: user, key, kwargs and what it returned

vars == <<tickets, counter, locked, fsm, running, out, audit,
          saved_language, user_languages, starts, pressed, text>>

\* the state of the language stores and of the /start handlers, the history
\* of the upload conversation and the last call of get_text
lang == <<saved_language, user_languages, starts, pressed, text>>

\* ---- helpers of src/commands/utils.py ----
is_admin(u, ids) == u \in ids

DigitVal == [c \in {"0", "1", "2", "3", "4", "5", "6", "7", "8", "9"} |->
               CASE c = "0" -> 0 [] c = "1" -> 1 [] c = "2" -> 2 [] c = "3" -> 3
                 [] c = "4" -> 4 [] c = "5" -> 5 [] c = "6" -> 6 [] c = "7" -> 7
                 [] c = "8" -> 8 [] c = "9" -> 9]

\* parse_int_safe: the integer a decimal string denotes, None for any other
\* string (strings of one character suffice for the ticket numbers in range)
parse_int_safe(s) == IF s \in DOMAIN DigitVal THEN DigitVal[s] ELSE None

\* f"{ticket_number}" in the callback payloads of helpers/bot.py
FormatInt(n) == CHOOSE c \in DOMAIN DigitVal : DigitVal[c] = n

\* the suffixes a callback payload "action:<suffix>" may carry
Suffixes == {FormatInt(n) : n \in TicketNums} \cup {"x"}

\* ---- the ticket store (src/database/db.py) ----
ActiveNumbers(tk) == {n \in DOMAIN tk : tk[n].status = "active"}

add_ticket(tk, n, u) ==
    [k \in DOMAIN tk \cup {n} |->
        IF k = n THEN [user_id |-> u, status |-> "active"] ELSE tk[k]]

\* forward-only: a ticket that is absent or already rejected is left alone
set_ticket_status(tk, n, s) ==
    IF n \in DOMAIN tk /\ tk[n].status = "active"
    THEN [tk EXCEPT ![n].status = s]
    ELSE tk

archive_lottery(tk) == [k \in {} |-> [user_id |-> 0, status |-> "active"]]

get_active_ticket_by_number(tk, n) == n \in ActiveNumbers(tk)

get_ticket_by_number_any_status(tk, n) == n \in DOMAIN tk

\* the numbers of the active tickets of user u
get_active_tickets_by_user(tk, u) == {n \in ActiveNumbers(tk) : tk[n].user_id = u}

\* atomic increment-and-read of the ticket counter
get_next_ticket_number(c) == c + 1

\* the tickets get_random_active_ticket may return
get_random_active_ticket(tk) == ActiveNumbers(tk)

\* ---- draw_lock (src/commands/utils.py) ----
\* async with draw_lock: TRUE when the lock is free and is taken; a held lock
\* refuses the caller at once
lock_enter(l) == ~l

\* leaving the async with block
lock_release(l) == FALSE

\* ---- TelegramLogger (src/utils/logger.py) ----
\* faulty variant: a failed send to the log channel escapes the logger
log_user_action_raises(sent) == IF sent THEN "returned" ELSE "raised"

\* log_user_action, and log_admin_action which calls it: how the call ends
\* when the send to the log channel went through (sent) and when it raised;
\* the exception is caught inside
log_user_action(sent) == IF sent THEN "returned" ELSE "returned"

\* what the log channel got from a handler
AuditOutcome(sent) == IF sent THEN "sent" ELSE "failed"

\* ---- tasks ----
Task(k, p, u, n) == [kind |-> k, pc |-> p, user |-> u, num |-> n]

NoAnswer == [kind |-> "none", reply |-> "none", num |-> None]

\* get_text has not been called
NoText == [user |-> None, key |-> "none", kwargs |-> {}, result |-> "none"]

\* no finished handler is waiting to return
Quiet == out = NoAnswer

\* the dispatcher can start one more handler task
CanStart == Quiet /\ BagCardinality(running) < MaxTasks

\* a task in flight at position p of handler k may take its next step
Ready(r, k, p) == Quiet /\ BagIn(r, running) /\ r.kind = k /\ r.pc = p

Spawn(r) == running' = running (+) SetToBag({r})

Move(r, r2) == running' = (running (-) SetToBag({r})) (+) SetToBag({r2})

Exit(r) == running' = running (-) SetToBag({r})

Answer(k, rp, n) == out' = [kind |-> k, reply |-> rp, num |-> n]

\* how many tasks in flight are among the tasks S
Count(S) == BagCardinality([r \in S \cap BagToSet(running) |-> running[r]])

Init ==
    /\ tickets = archive_lottery(<<>>)
    /\ counter = 0
    /\ locked = FALSE
    /\ fsm = [u \in Users |-> "none"]
    /\ running = EmptyBag
    /\ out = NoAnswer
    /\ audit = "none"
    /\ saved_language = [u \in Users |-> "none"]
    /\ user_languages = [u \in Users |-> "none"]
    /\ starts = EmptyBag
    /\ pressed = [u \in Users |-> "none"]
    /\ text = NoText

\* a finished handler returns
Return ==
    /\ ~Quiet
    /\ out' = NoAnswer
    /\ audit' = "none"
    /\ UNCHANGED <<tickets, counter, locked, fsm, running, lang>>

\* ---- history of the upload conversation ----
\* "none" until the user's first press of "upload photo" is recorded, then
\* what the user has done last: pressed the button, got a ticket registered,
\* or sent /start (in the state waiting_for_photo or not)
ButtonPressed(p, u) == [p EXCEPT ![u] = "pressed"]

TicketRegistered(p, u) == [p EXCEPT ![u] = IF @ = "none" THEN "none" ELSE "registered"]

StartSent(p, u, waiting) ==
    [p EXCEPT ![u] = IF @ = "none" THEN "none"
                     ELSE IF waiting THEN "start_in_waiting" ELSE "start"]

\* ---- start_photo_upload ----
\* start_photo_upload with no log channel configured: set_state at once
start_photo_upload(u) ==
    /\ Quiet
    /\ fsm' = [fsm EXCEPT ![u] = "waiting_for_photo"]
    /\ UNCHANGED <<tickets, counter, locked, running, out, audit, lang>>

\* start_photo_upload with a log channel configured: the handler is
\* suspended in the audit send before it sets the state
StartUploadDispatch(u) ==
    /\ CanStart
    /\ Spawn(Task("press", "audit", u, None))
    /\ pressed' = ButtonPressed(pressed, u)
    /\ UNCHANGED <<tickets, counter, locked, fsm, out, audit, saved_language,
                   user_languages, starts, text>>

\* log_user_action has ended: set_state, then the instructions are sent
StartUploadSetState ==
    \E r \in BagToSet(running) :
      /\ Ready(r, "press", "audit")
      /\ Exit(r)
      /\ fsm' = [fsm EXCEPT ![r.user] = "waiting_for_photo"]
      /\ \E rp \in {"photo_upload_instructions", "error_starting_photo_upload"} :
             Answer("press", rp, None)
      /\ UNCHANGED <<tickets, counter, locked, audit, lang>>

\* ---- handle_upload_photo ----
\* a photo of a user who is not in the state waiting_for_photo matches no
\* registered handler
photo_without_state(u) ==
    /\ Quiet
    /\ fsm[u] # "waiting_for_photo"
    /\ Answer("upload", "not_handled", None)
    /\ UNCHANGED <<tickets, counter, locked, fsm, running, audit, lang>>

\* the uploads in flight that have not received their number yet
GettingNumber == {r \in BagToSet(running) : r.kind = "upload" /\ r.pc = "get_number"}

\* registered under the filter UploadPhoto.waiting_for_photo and checking the
\* state again; then it calls get_next_ticket_number
UploadDispatch(u) ==
    /\ CanStart
    /\ fsm[u] = "waiting_for_photo"
    /\ counter + Count(GettingNumber) < MaxTickets
    /\ Spawn(Task("upload", "get_number", u, None))
    /\ UNCHANGED <<tickets, counter, locked, fsm, out, audit, lang>>

\* faulty variant: the number is read without advancing the counter
UploadGetNumberStale ==
    \E r \in BagToSet(running) :
      /\ Ready(r, "upload", "get_number")
      /\ Move(r, Task("upload", "add_ticket", r.user, counter + 1))
      /\ UNCHANGED <<tickets, counter, locked, fsm, out, audit, lang>>

\* faulty variant: the number is taken from the size of the live table
UploadGetNumberReuse ==
    \E r \in BagToSet(running) :
      /\ Ready(r, "upload", "get_number")
      /\ counter' = get_next_ticket_number(counter)
      /\ Move(r, Task("upload", "add_ticket", r.user, Cardinality(DOMAIN tickets) + 1))
      /\ UNCHANGED <<tickets, locked, fsm, out, audit, lang>>

\* get_next_ticket_number returns (or raises); add_ticket is called with its
\* result
UploadGetNumber ==
    \E r \in BagToSet(running) :
      /\ Ready(r, "upload", "get_number")
      /\ \/ /\ counter' = get_next_ticket_number(counter)
            /\ Move(r, Task("upload", "add_ticket", r.user, get_next_ticket_number(counter)))
            /\ UNCHANGED out
         \/ /\ Exit(r)
            /\ Answer("upload", "error_processing_photo", None)
            /\ UNCHANGED counter
      /\ UNCHANGED <<tickets, locked, fsm, audit, lang>>

\* faulty variant: the ticket is stored under the id of the chat the photo was
\* forwarded from, not under the id of the sender
UploadStoreOtherOwner(r, ok, sent) ==
    /\ Ready(r, "upload", "add_ticket")
    /\ Exit(r)
    /\ IF ok
       THEN /\ r.num \notin DOMAIN tickets
            /\ \E o \in Users \ {r.user} : tickets' = add_ticket(tickets, r.num, o)
            /\ fsm' = [fsm EXCEPT ![r.user] = "none"]
            /\ \E rp \in {"photo_registered", "registered_then_error"} :
                    Answer("upload", rp, r.num)
       ELSE /\ Answer("upload", "error_processing_photo", r.num)
            /\ UNCHANGED <<tickets, fsm>>
    /\ UNCHANGED <<counter, locked, saved_language, user_languages, starts, text>>

\* add_ticket returns (ok) or raises: the state is cleared, the action audited
\* (the send to the log channel went through or not), the user answered and
\* the group notified (a send may raise)
UploadStore(r, ok, sent) ==
    /\ Ready(r, "upload", "add_ticket")
    /\ Exit(r)
    /\ IF ok
       THEN /\ r.num \notin DOMAIN tickets
            /\ tickets' = add_ticket(tickets, r.num, r.user)
            /\ fsm' = [fsm EXCEPT ![r.user] = "none"]
            /\ IF log_user_action(sent) = "raised"
               THEN Answer("upload", "registered_then_error", r.num)
               ELSE \E rp \in {"photo_registered", "registered_then_error"} :
                       Answer("upload", rp, r.num)
       ELSE /\ Answer("upload", "error_processing_photo", r.num)
            /\ UNCHANGED <<tickets, fsm>>
    /\ UNCHANGED <<counter, locked, saved_language, user_languages, starts, text>>

UploadAddTicket ==
    \E r \in BagToSet(running), ok \in BOOLEAN, sent \in BOOLEAN :
      /\ UploadStore(r, ok, sent)
      /\ audit' = IF ok THEN AuditOutcome(sent) ELSE "none"
      /\ pressed' = IF ok THEN TicketRegistered(pressed, r.user) ELSE pressed

\* ---- admin_start_draw ----
\* admin check, lock check, audit.  The audit send suspends the handler when
\* a log channel is configured (settings.log_channel_id); with none the
\* handler runs on at once, which is DrawEnter directly after DrawDispatch
DrawDispatch(u) ==
    /\ CanStart
    /\ IF ~is_admin(u, admin_ids)
       THEN Answer("draw", "insufficient_rights", None) /\ UNCHANGED <<locked, running>>
       ELSE IF locked
       THEN Answer("draw", "draw_in_progress", None) /\ UNCHANGED <<locked, running>>
       ELSE Spawn(Task("draw", "audit", None, None)) /\ UNCHANGED <<locked, out>>
    /\ UNCHANGED <<tickets, counter, fsm, audit, lang>>

\* faulty variant: get_random_active_ticket is called outside the lock
DrawEnterWithoutLock ==
    \E r \in BagToSet(running) :
      /\ Ready(r, "draw", "audit")
      /\ Move(r, Task("draw", "select", None, None))
      /\ UNCHANGED <<tickets, counter, locked, fsm, out, audit, lang>>

\* log_admin_action has ended (the send to the log channel went through or
\* not): async with draw_lock, then get_random_active_ticket is called
DrawAudited(r, sent) ==
    /\ Ready(r, "draw", "audit")
    /\ IF log_user_action(sent) = "raised"
       THEN Exit(r) /\ Answer("draw", "error_starting_draw", None) /\ UNCHANGED locked
       ELSE IF lock_enter(locked)
       THEN locked' = TRUE /\ Move(r, Task("draw", "select", None, None)) /\ UNCHANGED out
       ELSE Exit(r) /\ Answer("draw", "error_starting_draw", None) /\ UNCHANGED locked
    /\ UNCHANGED <<tickets, counter, fsm, lang>>

DrawEnter ==
    \E r \in BagToSet(running), sent \in BOOLEAN :
      /\ DrawAudited(r, sent)
      /\ audit' = IF out' = NoAnswer THEN "none" ELSE AuditOutcome(sent)

\* faulty variant: the draw selects among all tickets, whatever their status
DrawSelectAny ==
    \E r \in BagToSet(running) :
      /\ Ready(r, "draw", "select")
      /\ \/ /\ DOMAIN tickets = {}
            /\ Move(r, Task("draw", "present", None, None))
         \/ \E n \in DOMAIN tickets : Move(r, Task("draw", "present", None, n))
      /\ UNCHANGED <<tickets, counter, locked, fsm, out, audit, lang>>

\* get_random_active_ticket returns: the answer is sent while the lock is
\* held; if it raises the lock is released on the way out
DrawSelect ==
    \E r \in BagToSet(running) :
      /\ Ready(r, "draw", "select")
      /\ \/ /\ get_random_active_ticket(tickets) = {}
            /\ Move(r, Task("draw", "present", None, None))
            /\ UNCHANGED <<locked, out>>
         \/ \E n \in get_random_active_ticket(tickets) :
              /\ Move(r, Task("draw", "present", None, n))
              /\ UNCHANGED <<locked, out>>
         \/ /\ Exit(r)
            /\ Answer("draw", "error_starting_draw", None)
            /\ locked' = lock_release(locked)
      /\ UNCHANGED <<tickets, counter, fsm, audit, lang>>

\* faulty variant: the lock stays held when the answer cannot be sent
DrawPresentKeepsLock ==
    \E r \in BagToSet(running) :
      /\ Ready(r, "draw", "present")
      /\ Exit(r)
      /\ \/ /\ Answer("draw", IF r.num = None THEN "no_active_tickets" ELSE "draw_result", r.num)
            /\ locked' = lock_release(locked)
         \/ /\ Answer("draw", "error_starting_draw", None)
            /\ UNCHANGED locked
      /\ UNCHANGED <<tickets, counter, fsm, audit, lang>>

\* faulty variant: presenting the draw result takes the ticket out of the draw
DrawPresentMarks ==
    \E r \in BagToSet(running) :
      /\ Ready(r, "draw", "present")
      /\ Exit(r)
      /\ Answer("draw", IF r.num = None THEN "no_active_tickets" ELSE "draw_result", r.num)
      /\ tickets' = set_ticket_status(tickets, r.num, "rejected")
      /\ locked' = lock_release(locked)
      /\ UNCHANGED <<counter, fsm, audit, lang>>

\* message.answer / answer_photo returns or raises; the lock is released
DrawPresent ==
    \E r \in BagToSet(running) :
      /\ Ready(r, "draw", "present")
      /\ Exit(r)
      /\ \/ Answer("draw", IF r.num = None THEN "no_active_tickets" ELSE "draw_result", r.num)
         \/ Answer("draw", "error_starting_draw", None)
      /\ locked' = lock_release(locked)
      /\ UNCHANGED <<tickets, counter, fsm, audit, lang>>

\* ---- callback queries ----
\* faulty variant: a ticket is confirmed whatever its status
ConfirmDispatchAnyStatus(u, s) ==
    /\ CanStart
    /\ IF ~is_admin(u, admin_ids)
       THEN Answer("confirm", "no_rights", None) /\ UNCHANGED running
       ELSE IF parse_int_safe(s) = None
       THEN Answer("confirm", "incorrect_ticket_number", None) /\ UNCHANGED running
       ELSE Spawn(Task("confirm", "set", None, parse_int_safe(s))) /\ UNCHANGED out
    /\ UNCHANGED <<tickets, counter, locked, fsm, audit, lang>>

\* admin_confirm_winner up to the return of get_ticket_by_number_any_status
\* (which may raise)
ConfirmDispatch(u, s) ==
    /\ CanStart
    /\ IF ~is_admin(u, admin_ids)
       THEN Answer("confirm", "no_rights", None) /\ UNCHANGED running
       ELSE IF parse_int_safe(s) = None
       THEN Answer("confirm", "incorrect_ticket_number", None) /\ UNCHANGED running
       ELSE \/ IF ~get_ticket_by_number_any_status(tickets, parse_int_safe(s))
                  \/ tickets[parse_int_safe(s)].status # "active"
               THEN Answer("confirm", "ticket_unavailable", parse_int_safe(s)) /\ UNCHANGED running
               ELSE Spawn(Task("confirm", "set", None, parse_int_safe(s))) /\ UNCHANGED out
            \/ Answer("confirm", "error_confirming_winner", None) /\ UNCHANGED running
    /\ UNCHANGED <<tickets, counter, locked, fsm, audit, lang>>

\* faulty variant: the status is written to every ticket
ConfirmSetAll ==
    \E r \in BagToSet(running) :
      /\ Ready(r, "confirm", "set")
      /\ Exit(r)
      /\ tickets' = [k \in DOMAIN tickets |-> [tickets[k] EXCEPT !.status = "rejected"]]
      /\ Answer("confirm", "winner_published", r.num)
      /\ UNCHANGED <<counter, locked, fsm, audit, lang>>

\* set_ticket_status returns (ok) or raises: audit (the send to the log
\* channel went through or not), announcement to the group, answer
ConfirmStore(r, ok, sent) ==
    /\ Ready(r, "confirm", "set")
    /\ Exit(r)
    /\ IF ok
       THEN /\ tickets' = set_ticket_status(tickets, r.num, "rejected")
            /\ IF log_user_action(sent) = "raised"
               THEN Answer("confirm", "error_confirming_winner", r.num)
               ELSE \E rp \in {"winner_published", "error_confirming_winner"} :
                       Answer("confirm", rp, r.num)
       ELSE /\ Answer("confirm", "error_confirming_winner", r.num)
            /\ UNCHANGED tickets
    /\ UNCHANGED <<counter, locked, fsm, lang>>

ConfirmSet ==
    \E r \in BagToSet(running), ok \in BOOLEAN, sent \in BOOLEAN :
      /\ ConfirmStore(r, ok, sent)
      /\ audit' = IF ok THEN AuditOutcome(sent) ELSE "none"

\* the prefixes main registers a callback handler for
Registered == {"confirm_win", "view_ticket"}

\* the payload of the reject button of lottery_inline_actions
RejectPayload(n) == <<"reject_win", FormatInt(n)>>

\* the admin presses the reject button of the draw result just presented:
\* the dispatcher finds no handler for the payload
RejectDispatch(n) ==
    /\ out = [kind |-> "draw", reply |-> "draw_result", num |-> n]
    /\ BagCardinality(running) < MaxTasks
    /\ RejectPayload(n)[1] \notin Registered
    /\ Answer("unhandled", "none", parse_int_safe(RejectPayload(n)[2]))
    /\ UNCHANGED <<tickets, counter, locked, fsm, running, audit, lang>>

\* faulty variant: the photo goes to whoever asks for an active ticket
ViewDispatchAnyOwner(u, s) ==
    /\ CanStart
    /\ IF parse_int_safe(s) = None
       THEN Answer("view", "incorrect_ticket_number", None) /\ UNCHANGED running
       ELSE IF ~get_active_ticket_by_number(tickets, parse_int_safe(s))
       THEN Answer("view", "ticket_not_found", parse_int_safe(s)) /\ UNCHANGED running
       ELSE Spawn(Task("view", "send", u, parse_int_safe(s))) /\ UNCHANGED out
    /\ UNCHANGED <<tickets, counter, locked, fsm, audit, lang>>

\* faulty variant: the parsed number is looked up without the test for None
ViewDispatchUnparsed(u, s) ==
    /\ CanStart
    /\ \/ IF ~get_active_ticket_by_number(tickets, parse_int_safe(s))
          THEN Answer("view", "ticket_not_found", parse_int_safe(s)) /\ UNCHANGED running
          ELSE IF tickets[parse_int_safe(s)].user_id # u
          THEN Answer("view", "no_access_ticket", parse_int_safe(s)) /\ UNCHANGED running
          ELSE Spawn(Task("view", "send", u, parse_int_safe(s))) /\ UNCHANGED out
       \/ Answer("view", "error_viewing_ticket", None) /\ UNCHANGED running
    /\ UNCHANGED <<tickets, counter, locked, fsm, audit, lang>>

\* user_view_ticket_callback up to the return of get_active_ticket_by_number
\* (which may raise) and the ownership check on its result
ViewDispatch(u, s) ==
    /\ CanStart
    /\ IF parse_int_safe(s) = None
       THEN Answer("view", "incorrect_ticket_number", None) /\ UNCHANGED running
       ELSE \/ IF ~get_active_ticket_by_number(tickets, parse_int_safe(s))
               THEN Answer("view", "ticket_not_found", parse_int_safe(s)) /\ UNCHANGED running
               ELSE IF tickets[parse_int_safe(s)].user_id # u
               THEN Answer("view", "no_access_ticket", parse_int_safe(s)) /\ UNCHANGED running
               ELSE Spawn(Task("view", "send", u, parse_int_safe(s))) /\ UNCHANGED out
            \/ Answer("view", "error_viewing_ticket", None) /\ UNCHANGED running
    /\ UNCHANGED <<tickets, counter, locked, fsm, audit, lang>>

\* the audit has ended: answer_photo with the file_id and number of the
\* ticket the lookup returned; the send goes through or raises
ViewSend ==
    \E r \in BagToSet(running) :
      /\ Ready(r, "view", "send")
      /\ Exit(r)
      /\ \/ Answer("view", "your_ticket", r.num)
         \/ Answer("view", "error_viewing_ticket", r.num)
      /\ UNCHANGED <<tickets, counter, locked, fsm, audit, lang>>

\* ---- handle_my_tickets ----
\* the audit, then the list of the caller's active tickets: the answer tells
\* how many there are (the keyboard has one button per number), or that there
\* are none; a call that raises is answered with the error text
handle_my_tickets(u) ==
    /\ CanStart
    /\ \/ IF get_active_tickets_by_user(tickets, u) = {}
          THEN Answer("my_tickets", "no_tickets", 0)
          ELSE Answer("my_tickets", "your_tickets",
                      Cardinality(get_active_tickets_by_user(tickets, u)))
       \/ Answer("my_tickets", "error_retrieving_tickets", None)
    /\ UNCHANGED <<tickets, counter, locked, fsm, running, audit, lang>>

\* faulty variant: the archival is announced but only active tickets are removed
admin_archive_partial(u) ==
    /\ CanStart
    /\ is_admin(u, admin_ids)
    /\ tickets' = [k \in DOMAIN tickets \ ActiveNumbers(tickets) |-> tickets[k]]
    /\ Answer("archive", "lottery_archived", None)
    /\ UNCHANGED <<counter, locked, fsm, running, audit, lang>>

\* faulty variant: the archival runs without the test of the caller
admin_archive_unchecked(u) ==
    /\ CanStart
    /\ tickets' = archive_lottery(tickets)
    /\ Answer("archive", "lottery_archived", None)
    /\ UNCHANGED <<counter, locked, fsm, running, audit, lang>>

\* ---- admin_archive ----
\* admin check, audit (the send to the log channel went through or not),
\* archive_lottery (returns or raises), announcement
Archive(u, sent) ==
    /\ CanStart
    /\ IF ~is_admin(u, admin_ids)
       THEN Answer("archive", "insufficient_rights", None) /\ UNCHANGED tickets
       ELSE IF log_user_action(sent) = "raised"
       THEN Answer("archive", "error_archiving_lottery", None) /\ UNCHANGED tickets
       ELSE \/ /\ tickets' = archive_lottery(tickets)
               /\ \E rp \in {"lottery_archived", "error_archiving_lottery"} :
                      Answer("archive", rp, None)
            \/ /\ Answer("archive", "error_archiving_lottery", None)
               /\ UNCHANGED tickets
    /\ UNCHANGED <<counter, locked, fsm, running, lang>>

admin_archive(u) ==
    \E sent \in BOOLEAN :
      /\ Archive(u, sent)
      /\ audit' = IF is_admin(u, admin_ids) THEN AuditOutcome(sent) ELSE "none"

Next ==
    \/ Return
    \/ \E u \in Users : start_photo_upload(u)
    \/ \E u \in Users : UploadDispatch(u)
    \/ UploadGetNumber
    \/ UploadAddTicket
    \/ \E u \in Users : DrawDispatch(u)
    \/ DrawEnter
    \/ DrawSelect
    \/ DrawPresent
    \/ \E u \in Users, s \in Suffixes : ConfirmDispatch(u, s)
    \/ ConfirmSet
    \/ \E n \in TicketNums : RejectDispatch(n)
    \/ \E u \in Users : admin_archive(u)

Spec == Init /\ [][Next]_vars

\* the view handler beside the handlers that write the tickets table
ViewNext ==
    \/ Return
    \/ \E u \in Users : start_photo_upload(u)
    \/ \E u \in Users : UploadDispatch(u)
    \/ UploadGetNumber
    \/ UploadAddTicket
    \/ \E u \in Users, s \in Suffixes : ConfirmDispatch(u, s)
    \/ ConfirmSet
    \/ \E u \in Users, s \in Suffixes : ViewDispatch(u, s)
    \/ ViewSend
    \/ \E u \in Users : handle_my_tickets(u)
    \/ \E u \in Users : admin_archive(u)

ViewSpec == Init /\ [][ViewNext]_vars

\* the event loop runs every task that is ready, in turn: a handler whose
\* database call or send has ended is resumed
FairSpec == Spec /\ WF_vars(Return) /\ SF_vars(DrawSelect) /\ SF_vars(DrawPresent)

\* ---- languages (src/utils/language.py) ----
DEFAULT_LANGUAGE == "english"

LANGUAGE_MAPPING ==
    [c \in {"en", "ru", "es"} |->
        CASE c = "en" -> "english" [] c = "ru" -> "russian" [] c = "es" -> "spanish"]

\* load_translations: the keys each language of the translation file defines
translations ==
    [l \in {"english", "russian"} |->
        IF l = "english"
        THEN {"welcome", "add_me", "updates", "photo_registered", "user_got_ticket"}
        ELSE {"welcome", "add_me", "user_got_ticket"}]

\* the replacement fields "{name}" of the text of a key
Placeholders(key) ==
    CASE key = "photo_registered" -> {"ticket_number"}
      [] key = "user_got_ticket" -> {"username", "ticket_number"}
      [] OTHER -> {}

\* the language_code a client may send with /start ("none": no code)
LocaleHints == {"none", "en", "RU", "es", "de"}

\* str.lower on the codes above
Lower(c) == IF c = "RU" THEN "ru" ELSE c

get_user_lang(code) ==
    IF code = "none"
    THEN DEFAULT_LANGUAGE
    ELSE IF Lower(code) \in DOMAIN LANGUAGE_MAPPING
            /\ LANGUAGE_MAPPING[Lower(code)] \in DOMAIN translations
    THEN LANGUAGE_MAPPING[Lower(code)]
    ELSE DEFAULT_LANGUAGE

\* utils.language.get_user_language: _user_languages.get(user_id, DEFAULT_LANGUAGE)
language_get_user_language(ul, u) == IF ul[u] = "none" THEN DEFAULT_LANGUAGE ELSE ul[u]

\* utils.language.set_user_language: _user_languages[user_id] = language
language_set_user_language(ul, u, l) == [ul EXCEPT ![u] = l]

\* text.format(**kwargs): KeyError when a replacement field has no argument
str_format(key, kwargs) ==
    IF Placeholders(key) \subseteq kwargs THEN "formatted" ELSE "KeyError"

\* the text of key in language l after the try block around text.format: the
\* formatted text, or the text as it is in the file when format raised
Formatted(l, key, kwargs) ==
    [lang |-> l, key |-> key,
     form |-> IF str_format(key, kwargs) = "KeyError" THEN "template" ELSE "formatted"]

\* faulty variant: the default language is looked up first
get_text_default_first(ul, u, key, kwargs) ==
    IF DEFAULT_LANGUAGE \in DOMAIN translations /\ key \in translations[DEFAULT_LANGUAGE]
    THEN Formatted(DEFAULT_LANGUAGE, key, kwargs)
    ELSE IF language_get_user_language(ul, u) \in DOMAIN translations
            /\ key \in translations[language_get_user_language(ul, u)]
    THEN Formatted(language_get_user_language(ul, u), key, kwargs)
    ELSE [lang |-> "missing", key |-> key, form |-> "marker"]

\* faulty variant: the KeyError of text.format is not caught
get_text_raises(ul, u, key, kwargs) ==
    IF language_get_user_language(ul, u) \in DOMAIN translations
       /\ key \in translations[language_get_user_language(ul, u)]
    THEN [lang |-> language_get_user_language(ul, u), key |-> key,
          form |-> IF str_format(key, kwargs) = "KeyError" THEN "raised" ELSE "formatted"]
    ELSE IF DEFAULT_LANGUAGE \in DOMAIN translations /\ key \in translations[DEFAULT_LANGUAGE]
    THEN [lang |-> DEFAULT_LANGUAGE, key |-> key,
          form |-> IF str_format(key, kwargs) = "KeyError" THEN "raised" ELSE "formatted"]
    ELSE [lang |-> "missing", key |-> key, form |-> "marker"]

\* what get_text returns: the text of key in the language of the user, else
\* in the default language, formatted with kwargs; with the key in neither,
\* the marker "[Missing translation: key]"
get_text(ul, u, key, kwargs) ==
    IF language_get_user_language(ul, u) \in DOMAIN translations
       /\ key \in translations[language_get_user_language(ul, u)]
    THEN Formatted(language_get_user_language(ul, u), key, kwargs)
    ELSE IF DEFAULT_LANGUAGE \in DOMAIN translations /\ key \in translations[DEFAULT_LANGUAGE]
    THEN Formatted(DEFAULT_LANGUAGE, key, kwargs)
    ELSE [lang |-> "missing", key |-> key, form |-> "marker"]

\* ---- the users table (src/database/db.py) ----
\* the stored language of the user, "none" without one
get_user_language(db, u) == db[u]

set_user_language(db, u, l) == [db EXCEPT ![u] = l]

\* ---- handle_start_command (src/handlers/start.py) ----
StartTask(p, u, d, l) == [pc |-> p, user |-> u, detected |-> d, lang |-> l]

StartReady(r, p) == Quiet /\ BagIn(r, starts) /\ r.pc = p

\* state.clear(), get_user_lang on the language code of the client; then
\* get_user_language is called
handle_start_command(u, code) ==
    /\ Quiet
    /\ BagCardinality(starts) < MaxTasks
    /\ fsm' = [fsm EXCEPT ![u] = "none"]
    /\ starts' = starts (+) SetToBag({StartTask("get_language", u, get_user_lang(code), "none")})
    /\ pressed' = StartSent(pressed, u, fsm[u] = "waiting_for_photo")
    /\ UNCHANGED <<tickets, counter, locked, running, out, audit, saved_language,
                   user_languages, text>>

\* get_user_language returns (or raises): user_language is the saved language
\* or else the detected one; it is written when none is saved or the saved one
\* differs from the detected one, otherwise the welcome text is sent
StartGetLanguage ==
    \E r \in BagToSet(starts) :
      /\ StartReady(r, "get_language")
      /\ \/ IF get_user_language(saved_language, r.user) = "none"
               \/ get_user_language(saved_language, r.user) # r.detected
            THEN /\ starts' = (starts (-) SetToBag({r})) (+)
                        SetToBag({StartTask("set_language", r.user, r.detected,
                            IF get_user_language(saved_language, r.user) # "none"
                            THEN get_user_language(saved_language, r.user)
                            ELSE r.detected)})
                 /\ UNCHANGED out
            ELSE /\ starts' = starts (-) SetToBag({r})
                 /\ \E rp \in {get_text(user_languages, r.user, "welcome", {}).lang, "fallback_english"} :
                       Answer("start", rp, None)
         \/ /\ starts' = starts (-) SetToBag({r})
            /\ Answer("start", "fallback_english", None)
      /\ UNCHANGED <<tickets, counter, locked, fsm, running, audit, saved_language,
                     user_languages, pressed, text>>

\* set_user_language returns (or raises): audit, then the welcome text of
\* get_text is sent (the reply shows its language); the except branch sends
\* the fixed English text
StartSetLanguage ==
    \E r \in BagToSet(starts) :
      /\ StartReady(r, "set_language")
      /\ starts' = starts (-) SetToBag({r})
      /\ \/ /\ saved_language' = set_user_language(saved_language, r.user, r.lang)
            /\ \E rp \in {get_text(user_languages, r.user, "welcome", {}).lang, "fallback_english"} :
                  Answer("start", rp, None)
         \/ /\ Answer("start", "fallback_english", None)
            /\ UNCHANGED saved_language
      /\ UNCHANGED <<tickets, counter, locked, fsm, running, audit, user_languages, pressed, text>>

StartNext ==
    \/ Return
    \/ \E u \in Users : start_photo_upload(u)
    \/ \E u \in Users, code \in LocaleHints : handle_start_command(u, code)
    \/ StartGetLanguage
    \/ StartSetLanguage

StartSpec == Init /\ [][StartNext]_vars


\* the language code of the clients in the upload conversation
UploadLocale == "en"

\* the upload conversation: the button, the photo handler and /start
UploadNext ==
    \/ Return
    \/ \E u \in Users : StartUploadDispatch(u)
    \/ StartUploadSetState
    \/ \E u \in Users : photo_without_state(u)
    \/ \E u \in Users : UploadDispatch(u)
    \/ UploadGetNumber
    \/ UploadAddTicket
    \/ \E u \in Users : handle_start_command(u, UploadLocale)
    \/ StartGetLanguage
    \/ StartSetLanguage

UploadSpec == Init /\ [][UploadNext]_vars

\* ---- get_text on bounded inputs ----
\* the languages set_user_language is called with
SetLanguages == {LANGUAGE_MAPPING[c] : c \in DOMAIN LANGUAGE_MAPPING}

\* the keys and the keyword arguments get_text is called with
TextKeys == {"welcome", "photo_registered", "user_got_ticket", "no_such_key"}

TextKwargs == SUBSET {"username", "ticket_number"}

SetLanguage(u, l) ==
    /\ user_languages' = language_set_user_language(user_languages, u, l)
    /\ UNCHANGED <<tickets, counter, locked, fsm, running, out, audit, saved_language,
                   starts, pressed, text>>

GetText(u, key, kwargs) ==
    /\ text' = [user |-> u, key |-> key, kwargs |-> kwargs,
                result |-> get_text(user_languages, u, key, kwargs)]
    /\ UNCHANGED <<tickets, counter, locked, fsm, running, out, audit, saved_language,
                   user_languages, starts, pressed>>

TextNext ==
    \/ \E u \in Users, l \in SetLanguages : SetLanguage(u, l)
    \/ \E u \in Users, key \in TextKeys, kwargs \in TextKwargs : GetText(u, key, kwargs)

TextSpec == Init /\ [][TextNext]_vars
\* ---- properties ----
\* task r of the current state takes the step
Steps(r) == BagIn(r, running) /\ CopiesIn(r, running') < CopiesIn(r, running)

\* task r is in flight after the step and was not before it
Arrives(r) == CopiesIn(r, running') > CopiesIn(r, running)

InSection == {r \in BagToSet(running) : r.kind = "draw" /\ r.pc \in {"select", "present"}}

AtAudit == {r \in BagToSet(running) : r.kind = "draw" /\ r.pc = "audit"}

HoldingNumber == {r \in BagToSet(running) : r.kind = "upload" /\ r.pc = "add_ticket"}

HoldsNumber(r) == r.kind = "upload" /\ r.pc = "add_ticket"

\* C1: a draw attempt of an admin that ends while another draw holds the lock
\* was answered "draw in progress"
C1_SecondDrawToldInProgress ==
    (locked /\ out.kind = "draw" /\ out.reply # "insufficient_rights")
        => out.reply = "draw_in_progress"

\* C2: at most one admin_start_draw handler is between get_random_active_ticket
\* and the end of answer_photo
C2_OneDrawInFlight == Count(InSection) <= 1

\* a draw is in its section while another draw handler, past the lock check,
\* is about to enter the lock
C2_Witness == Count(InSection) = 1 /\ Count(AtAudit) >= 1

\* C3: while a draw handler is presenting the ticket it selected, that ticket
\* is not removed by an archival
C3_DrawnTicketNotArchived ==
    \A r \in BagToSet(running) :
        (r.kind = "draw" /\ r.pc = "present" /\ r.num # None) => r.num \in DOMAIN tickets

\* C4: once the reject button pressed on the draw result for ticket n has been
\* processed, ticket n is no longer active
C4_RejectExcludesTicket ==
    out.kind = "unhandled" => out.num \notin ActiveNumbers(tickets)

\* C5: when an upload that was given number n fails in add_ticket, no record n
\* exists and n has not been consumed from the counter
C5_FailedUploadConsumesNothing ==
    (out.kind = "upload" /\ out.reply = "error_processing_photo" /\ out.num # None)
        => (out.num \notin DOMAIN tickets /\ counter < out.num)

C6_Distinct ==
    \A r \in BagToSet(running) :
        HoldsNumber(r) =>
            /\ CopiesIn(r, running) = 1
            /\ r.num \in 1..counter
            /\ r.num \notin DOMAIN tickets
            /\ \A r2 \in BagToSet(running) : (HoldsNumber(r2) /\ r2 # r) => r2.num # r.num

C6_NextInRange ==
    \A r \in BagToSet(running') :
        (HoldsNumber(r) /\ Arrives(r)) => (r.num = counter + 1 /\ counter' = r.num)

\* C6: the numbers concurrent uploads receive are pairwise distinct, differ
\* from every stored ticket's number, and each is the counter plus one, the
\* counter advancing with it (no gap, no repetition)
C6_ConcurrentNumbersDistinct == [](C6_Distinct) /\ [][C6_NextInRange]_vars

\* two uploads hold their numbers at the same time
C6_Witness == Count(HoldingNumber) >= 2

\* C7: a ticket number whose status is rejected never has status active later
C7_RejectedNeverActiveAgain ==
    \A n \in TicketNums :
        []((n \in DOMAIN tickets /\ tickets[n].status = "rejected")
              => [](n \notin ActiveNumbers(tickets)))

\* a ticket is rejected and an upload with a later number has just been stored
C7_Witness ==
    /\ out.kind = "upload" /\ out.reply = "photo_registered"
    /\ \E n \in DOMAIN tickets : tickets[n].status = "rejected" /\ n < out.num

C8_ConfirmFrame ==
    \A r \in BagToSet(running) :
        (r.kind = "confirm" /\ Steps(r)) =>
            /\ DOMAIN tickets' = DOMAIN tickets
            /\ \A k \in DOMAIN tickets \ {r.num} : tickets'[k] = tickets[k]
            /\ (out'.reply = "winner_published" /\ r.num \in DOMAIN tickets)
                   => tickets'[r.num].status = "rejected"

C8_NoRejectedDrawn ==
    \A r \in BagToSet(running') :
        (r.kind = "draw" /\ r.pc = "present" /\ Arrives(r) /\ r.num # None)
            => (r.num \in DOMAIN tickets /\ tickets[r.num].status # "rejected")

\* C8: confirming the winner on ticket n changes no other ticket and leaves n
\* rejected; a draw never selects a ticket that is rejected
C8_ConfirmRejectsOnlyDrawn == [][C8_ConfirmFrame /\ C8_NoRejectedDrawn]_vars

\* a winner was confirmed while another ticket stays active
C8_Witness ==
    /\ out.kind = "confirm" /\ out.reply = "winner_published"
    /\ out.num \in DOMAIN tickets /\ tickets[out.num].status = "rejected"
    /\ ActiveNumbers(tickets) # {}

C9_Selection ==
    \A r \in BagToSet(running') :
        (r.kind = "draw" /\ r.pc = "present" /\ Arrives(r)) =>
            /\ r.num # None => r.num \in ActiveNumbers(tickets)
            /\ r.num = None <=> ActiveNumbers(tickets) = {}

C9_Presentation ==
    \A r \in BagToSet(running) :
        (r.kind = "draw" /\ r.pc = "present" /\ Steps(r)) =>
            /\ out'.reply = "draw_result" => (r.num # None /\ out'.num = r.num)
            /\ out'.reply = "no_active_tickets" => r.num = None

C10_Archive ==
    (out' # out /\ out'.kind = "archive" /\ out'.reply = "lottery_archived")
        => (DOMAIN tickets' = {} /\ counter' = counter)

C10_Counter ==
    /\ counter' >= counter
    /\ \A r \in BagToSet(running') :
          (HoldsNumber(r) /\ Arrives(r)) => r.num = counter + 1

\* C10: an archival empties the live set and keeps the counter; the counter
\* never decreases and every number issued is the counter plus one, also
\* after an archival
C10_ArchiveKeepsCounter == [][C10_Archive /\ C10_Counter]_vars

\* a round in which numbers were issued has just been archived while an
\* upload is about to receive the next number
C10_Witness ==
    /\ out.kind = "archive" /\ out.reply = "lottery_archived"
    /\ counter >= 1
    /\ Count(GettingNumber) >= 1

\* ---- properties of the lock, the callbacks, the audit and the languages ----
C11_Held == locked <=> Count(InSection) = 1

C11_FreeAfterResult ==
    (out.kind = "draw" /\ out.reply \in {"draw_result", "no_active_tickets"}) => ~locked

C11_ConfirmLeavesLock ==
    \A r \in BagToSet(running) : (r.kind = "confirm" /\ Steps(r)) => locked' = locked

\* C11: the draw lock is held exactly while one admin_start_draw handler is
\* between its entry into the lock and the end of its answer: it is free as
\* soon as a result or "no active tickets" has been presented, every way a
\* handler leaves that section frees it, no confirm step touches it, and at
\* any time the lock is eventually free
C11_LockOnlyDuringDraw ==
    /\ [](C11_Held /\ C11_FreeAfterResult)
    /\ [][C11_ConfirmLeavesLock]_vars
    /\ []<>(~locked)

\* a draw result has just been presented, its ticket awaits the admin's
\* confirm or reject, and the lock is free
C11_Witness ==
    /\ out.kind = "draw" /\ out.reply = "draw_result"
    /\ out.num \in ActiveNumbers(tickets)
    /\ ~locked

\* the admin's confirm request names a number that exists as no active ticket
C12_Stale(u, s) ==
    /\ u \in admin_ids
    /\ s \in DOMAIN DigitVal
    /\ DigitVal[s] \notin ActiveNumbers(tickets)

C12_NoOp ==
    \A u \in Users, s \in Suffixes :
        (C12_Stale(u, s) /\ ConfirmDispatch(u, s)) =>
            /\ tickets' = tickets
            /\ running' = running
            /\ out'.kind = "confirm"
            /\ out'.reply \in {"ticket_unavailable", "error_confirming_winner"}

C12_SetOnlyForActive ==
    \A r \in BagToSet(running') :
        (r.kind = "confirm" /\ Arrives(r)) => r.num \in ActiveNumbers(tickets)

\* C12: admin_confirm_winner called with the number of a ticket that does not
\* exist or is not active changes no ticket, starts no status write and no
\* announcement, and answers "ticket unavailable" (the generic error when the
\* lookup itself raises); a status write is only ever started for a ticket the
\* lookup found active
C12_StaleConfirmIsNoOp == [][C12_NoOp /\ C12_SetOnlyForActive]_vars

\* a confirm for a ticket that was confirmed before has been answered
\* "ticket unavailable"
C12_Witness ==
    /\ out.kind = "confirm" /\ out.reply = "ticket_unavailable"
    /\ out.num \in DOMAIN tickets /\ tickets[out.num].status = "rejected"

\* C13: a view request that is refused because of the ticket it names gets
\* the reply of a ticket that is not found, also when the ticket is active
\* and owned by another user
C13_ForeignTicketNotFound ==
    (out.kind = "view" /\ out.reply \in {"ticket_not_found", "no_access_ticket"})
        => out.reply = "ticket_not_found"

C14_Owned ==
    \A r \in BagToSet(running) :
        (r.kind = "view" /\ r.num \in DOMAIN tickets) => tickets[r.num].user_id = r.user

C14_Lookup ==
    \A r \in BagToSet(running') :
        (r.kind = "view" /\ Arrives(r)) =>
            (r.num \in ActiveNumbers(tickets) /\ tickets[r.num].user_id = r.user)

C14_Delivery ==
    (out' # out /\ out'.kind = "view" /\ out'.reply = "your_ticket") =>
        \E r \in BagToSet(running) : r.kind = "view" /\ Steps(r) /\ out'.num = r.num

\* C14 as stated: a photo that has just been delivered is that of a ticket
\* which is active
C14_PhotoOnlyWhileActive ==
    (out.kind = "view" /\ out.reply = "your_ticket") => out.num \in ActiveNumbers(tickets)

\* C14: the photo of a ticket is delivered only by a view handler whose caller
\* owns the ticket and whose lookup found the ticket active; as long as the
\* ticket is in the table its owner is that caller
C14_PhotoOnlyToOwner == [](C14_Owned) /\ [][C14_Lookup /\ C14_Delivery]_vars

\* a user has been sent the photo of a ticket while a ticket of another user
\* is active
C14_Witness ==
    /\ out.kind = "view" /\ out.reply = "your_ticket"
    /\ out.num \in ActiveNumbers(tickets)
    /\ \E k \in ActiveNumbers(tickets) : tickets[k].user_id # tickets[out.num].user_id

C15_Rejected ==
    \A u \in Users, s \in Suffixes \ DOMAIN DigitVal :
        ((u \in admin_ids /\ ConfirmDispatch(u, s)) \/ ViewDispatch(u, s)) =>
            /\ out'.reply = "incorrect_ticket_number"
            /\ out'.kind \in {"confirm", "view"}
            /\ UNCHANGED <<tickets, counter, locked, running>>

\* C15: a confirm_win callback of an admin or a view_ticket callback whose
\* suffix is not a decimal number is answered "incorrect ticket number" and
\* changes no ticket, not the counter, not the lock, and starts no task
C15_NonIntegerSuffixIsError == [][C15_Rejected]_vars

\* a malformed confirm has been refused while a ticket is active
C15_Witness ==
    /\ out.kind = "confirm" /\ out.reply = "incorrect_ticket_number"
    /\ ActiveNumbers(tickets) # {}

C16_Refused ==
    \A u \in Users \ admin_ids :
        (DrawDispatch(u) \/ (\E s \in Suffixes : ConfirmDispatch(u, s)) \/ admin_archive(u)) =>
            /\ out'.reply \in {"insufficient_rights", "no_rights"}
            /\ UNCHANGED <<tickets, counter, locked, running>>

\* C16: a draw, confirm or archive request of a user outside admin_ids is
\* answered "insufficient rights" / "no rights" and selects nothing, leaves
\* the lock, every ticket and the counter as they are, and starts no task
\* (so nothing is posted to the group)
C16_AdminOnly == [][C16_Refused]_vars

\* an archive request of a non-admin has been refused while tickets are active
C16_Witness ==
    /\ out.kind = "archive" /\ out.reply = "insufficient_rights"
    /\ ActiveNumbers(tickets) # {}

C17_Same ==
    /\ \A r \in BagToSet(running) :
          /\ DrawAudited(r, FALSE) <=> DrawAudited(r, TRUE)
          /\ \A ok \in BOOLEAN :
                /\ UploadStore(r, ok, FALSE) <=> UploadStore(r, ok, TRUE)
                /\ ConfirmStore(r, ok, FALSE) <=> ConfirmStore(r, ok, TRUE)
    /\ \A u \in Users : Archive(u, FALSE) <=> Archive(u, TRUE)

\* C17: what an upload, draw, confirm or archive step does to the tickets,
\* the counter, the lock, the tasks and the answer when its audit send failed
\* is what it does when the audit send went through, and conversely
C17_AuditFailureHarmless == [][C17_Same]_vars

\* an archival has gone through although its audit send failed
C17_Witness ==
    /\ audit = "failed"
    /\ out.kind = "archive" /\ out.reply = "lottery_archived"
    /\ counter >= 1 /\ DOMAIN tickets = {}

\* C18: once a language is stored for a user, no step of a /start handler
\* changes it
C18_LanguageSetOnce ==
    [][\A u \in Users :
          saved_language[u] # "none" => saved_language'[u] = saved_language[u]]_vars

\* C19: for a user with a stored language L, get_text returns the text of L
\* for every key L defines
C19_LookupFollowsPreference ==
    \A u \in Users :
        saved_language[u] # "none" =>
            \A key \in translations[saved_language[u]] :
                get_text(user_languages, u, key, {}).lang = saved_language[u]

C20_DrawStep ==
    \/ \E r \in BagToSet(running) : r.kind = "draw" /\ Steps(r)
    \/ \E r \in BagToSet(running') : r.kind = "draw" /\ Arrives(r)
    \/ out' # out /\ out'.kind = "draw"

C20_Frame == C20_DrawStep => (tickets' = tickets /\ counter' = counter)

C20_StatusByConfirm ==
    (\E n \in DOMAIN tickets \cap DOMAIN tickets' : tickets'[n].status # tickets[n].status)
        => \E r \in BagToSet(running) : r.kind = "confirm" /\ Steps(r)

\* C20: no step of an admin_start_draw handler, however it ends, changes the
\* tickets table or the counter; the status of a ticket changes only in a step
\* of a confirm handler
C20_DrawChangesNoTicket == [][C20_Frame /\ C20_StatusByConfirm]_vars

\* a draw result has been presented while two tickets are in the table, the
\* drawn one still active
C20_Witness ==
    /\ out.kind = "draw" /\ out.reply = "draw_result"
    /\ out.num \in ActiveNumbers(tickets)
    /\ Cardinality(DOMAIN tickets) >= 2

\* a step stores the ticket of upload task r
Stores(r) ==
    r.kind = "upload" /\ Steps(r) /\ r.num \in DOMAIN tickets' \ DOMAIN tickets

\* the ticket an upload has just stored is active, owned by the uploader, in
\* the owner's list, and the payload of its button parses back to its number
C21_Stored ==
    \A r \in BagToSet(running) :
        Stores(r) =>
            /\ get_active_ticket_by_number(tickets', r.num)
            /\ tickets'[r.num].user_id = r.user
            /\ r.num \in get_active_tickets_by_user(tickets', r.user)
            /\ parse_int_safe(FormatInt(r.num)) = r.num

\* a number enters the table only by an upload storing it
C21_OnlyUploads ==
    \A n \in DOMAIN tickets' \ DOMAIN tickets :
        \E r \in BagToSet(running) : Stores(r) /\ r.num = n

\* the owner's view finds an active ticket; a number that is not in the
\* table is not found
C21_View ==
    \A u \in Users, s \in Suffixes :
        ViewDispatch(u, s) =>
            /\ (parse_int_safe(s) \in get_active_tickets_by_user(tickets, u))
                   => \/ Arrives(Task("view", "send", u, parse_int_safe(s)))
                      \/ out'.reply = "error_viewing_ticket"
            /\ (parse_int_safe(s) \notin DOMAIN tickets)
                   => out'.reply \in {"ticket_not_found", "incorrect_ticket_number",
                                      "error_viewing_ticket"}

\* C21: right after an upload has stored its ticket n, ticket n is active and
\* owned by the uploader, it is in the owner's list of active tickets and the
\* owner's view of the button "view_ticket:n" finds it; a ticket enters the
\* table only by an upload storing it, and the view of a number that is not
\* in the table is answered "ticket not found" (or with an error text)
C21_UploadedTicketIsFound ==
    [][C21_Stored /\ C21_OnlyUploads /\ C21_View]_vars

\* an upload has stored a ticket, its owner has asked for the list and got it
\* while another number was issued and never stored
C21_Witness ==
    /\ out.kind = "my_tickets" /\ out.reply = "your_tickets" /\ out.num >= 1
    /\ \E n \in 1..counter : n \notin DOMAIN tickets

\* a draw started by an admin while the lock is free is not answered "draw in
\* progress"
C22_NotInProgress ==
    \A u \in admin_ids :
        (DrawDispatch(u) /\ ~locked) =>
            (out'.reply # "draw_in_progress" /\ Arrives(Task("draw", "audit", None, None)))

\* a draw handler whose audit has ended enters the lock
C22_Enters ==
    \A r \in BagToSet(running) :
        (r.kind = "draw" /\ r.pc = "audit" /\ Steps(r)) =>
            (locked' /\ Arrives(Task("draw", "select", None, None)))

\* C22: a draw handler started by an admin while the lock is free is not
\* answered "draw in progress", and once its audit has ended it enters the
\* lock and calls get_random_active_ticket
C22_FreeLockDrawSelects == [][C22_NotInProgress /\ C22_Enters]_vars

\* the winner announcement for ticket n has just been posted
Announced(n) == out.kind = "confirm" /\ out.reply = "winner_published" /\ out.num = n

\* C23: when the winner announcement for ticket n has been posted, no other
\* admin_confirm_winner handler for n is past its status check and on its way
\* to set the status and post the announcement again
C23_AnnouncedOnce ==
    \A n \in TicketNums :
        Announced(n) =>
            \A r \in BagToSet(running) : ~(r.kind = "confirm" /\ r.num = n)

\* C24: an upload handler stores a ticket only while its user is in the state
\* waiting_for_photo: once the first photo of an entry into that state is
\* registered and the state is cleared, no other photo of the user creates a
\* ticket until the user starts a new upload
C24_OneTicketPerEntry ==
    [][\A r \in BagToSet(running) :
           Stores(r) => fsm[r.user] = "waiting_for_photo"]_vars

\* the text of the except branch of handle_upload_photo, which the model tells
\* apart by whether add_ticket had returned
ErrorProcessingPhoto == {"error_processing_photo", "registered_then_error"}

\* C25: an upload answered "Error processing photo" has stored no ticket
C25_ErrorMeansNoTicket ==
    (out.kind = "upload" /\ out.reply \in ErrorProcessingPhoto)
        => out.num \notin DOMAIN tickets

\* C26: the photo of a user who has not pressed "upload photo" since the
\* user's last registered ticket is not given to handle_upload_photo, so it
\* creates no ticket and is issued no number
C26_PhotoNeedsPress ==
    [][\A u \in Users : UploadDispatch(u) => pressed[u] # "registered"]_vars

\* C27: the photo of a user who sent /start in the state waiting_for_photo
\* and has not pressed "upload photo" since is not given to
\* handle_upload_photo
C27_StartEndsUpload ==
    [][\A u \in Users : UploadDispatch(u) => pressed[u] # "start_in_waiting"]_vars

\* language l has a text for key
HasText(l, key) == l \in DOMAIN translations /\ key \in translations[l]

\* what a call of get_text returns, by the languages that define the key and
\* by the arguments given
C28_Order ==
    \A u \in Users, key \in TextKeys, kwargs \in TextKwargs :
        GetText(u, key, kwargs) =>
            /\ text'.result.key = key
            /\ text'.result.form \in {"formatted", "template", "marker"}
            /\ text'.result.lang =
                  IF HasText(language_get_user_language(user_languages, u), key)
                  THEN language_get_user_language(user_languages, u)
                  ELSE IF HasText(DEFAULT_LANGUAGE, key) THEN DEFAULT_LANGUAGE
                  ELSE "missing"
            /\ (text'.result.lang = "missing") <=> (text'.result.form = "marker")
            /\ (text'.result.lang # "missing" /\ ~(Placeholders(key) \subseteq kwargs))
                   => text'.result.form = "template"
            /\ (text'.result.lang # "missing" /\ Placeholders(key) \subseteq kwargs)
                   => text'.result.form = "formatted"

\* C28: every call of get_text returns a text: that of the key in the
\* language of the user if that language defines the key, else that of the
\* default language if it defines the key, else the marker
\* "[Missing translation: key]"; the text is formatted when every replacement
\* field has an argument and is returned as it stands in the file otherwise
C28_GetTextFallsBack == [][C28_Order]_vars

\* a user whose language is russian asked for a key that only english
\* defines, without the argument of its replacement field
C28_Witness ==
    /\ text.user \in Users
    /\ user_languages[text.user] = "russian"
    /\ text.key = "photo_registered" /\ text.kwargs = {}
    /\ text.result = [lang |-> "english", key |-> "photo_registered", form |-> "template"]
====
